---- MODULE Spec2Model ----
(***************************************************************************)
(* A model of package api (github.com/cespedes/api): the handler shape     *)
(* validator, the dispatch adapter, the permission combinator, the         *)
(* middleware chain, the value store and the error taxonomy.               *)
(*                                                                         *)
(* The revision modelled is the first one of src/server.go (lines 1-368)   *)
(* with src/http.go; httpInfo and httpJSON, which that revision calls, are *)
(* taken from src/unnamed/part_001.  The encoder output and                *)
(* OutputWithStatus are those of src/unnamed/part_002.  Handler2 is the    *)
(* Handler of the second revision held in src/server.go (lines 584-646).   *)
(***************************************************************************)
EXTENDS Integers, Sequences, FiniteSets, TLC

(***************************************************************************)
(* Bounds of the model.                                                    *)
(***************************************************************************)
NReq == 2
MaxMw == 3
MaxPerm == 2
MaxWrap == 2
MaxHandle == 2
MaxAddrs == 2

(***************************************************************************)
(* Transport status codes used by the package.                             *)
(***************************************************************************)
StatusOK == 200
StatusBadRequest == 400
StatusUnauthorized == 401
StatusNotFound == 404

Reqs == 1 .. NReq
MwIds == 1 .. MaxMw
Patterns == {"/a", "/b"}
Keys == {"k"}
FieldNames == {"A", "B"}

(***************************************************************************)
(* 1. Handler shape validator                                              *)
(*                                                                         *)
(* A value handed to Handle/Handler is described by what reflection and    *)
(* the type assertions of checkHandler can see of it:                      *)
(*   untyped - the interface itself is nil                                 *)
(*   impl    - the dynamic type implements http.Handler                    *)
(*   kind    - "func" or "other" (reflect.Kind)                            *)
(*   named   - the dynamic type is a defined (named) type                  *)
(*   ins     - the parameter types, outs - the result types                *)
(*   zero    - reflect.Value.IsZero: a nil function value                  *)
(***************************************************************************)
TRequest == "*api.Request"
THttpRequest == "*http.Request"
TWriter == "http.ResponseWriter"
TError == "error"

FirstParams == {TRequest, THttpRequest, TWriter, "int"}
TStruct == "struct{A}"
SecondParams == {TStruct, "any"}
SecondResults == {TError, "any", "int", "string", "*MyErr"}

ParamLists ==
    {<<>>} \cup {<<a>> : a \in FirstParams}
           \cup {<<a, b>> : a \in FirstParams, b \in SecondParams}
           \cup {<<TRequest, b, "int">> : b \in SecondParams}

ResultLists ==
    {<<>>, <<"any">>, <<TError>>}
           \cup {<<"any", b>> : b \in SecondResults}
           \cup {<<"any", TError, "int">>}

RawIns == <<TWriter, THttpRequest>>

HandlerValue(u, i, k, n, a, o, z) ==
    [untyped |-> u, impl |-> i, kind |-> k, named |-> n, ins |-> a, outs |-> o, zero |-> z]

\* nil, 3 and "", an http.Handler object, http.HandlerFunc (nil or not), a
\* func(http.ResponseWriter, *http.Request) and a defined type of that
\* underlying type without methods (nil or not), and every function type
\* over the parameter and result lists.
HandlerValues ==
    {HandlerValue(TRUE, FALSE, "other", FALSE, <<>>, <<>>, FALSE),
     HandlerValue(FALSE, FALSE, "other", FALSE, <<>>, <<>>, FALSE),
     HandlerValue(FALSE, TRUE, "other", TRUE, <<>>, <<>>, FALSE),
     HandlerValue(FALSE, TRUE, "func", TRUE, RawIns, <<>>, FALSE),
     HandlerValue(FALSE, TRUE, "func", TRUE, RawIns, <<>>, TRUE)}
    \cup {HandlerValue(FALSE, FALSE, "func", n, RawIns, <<>>, z) :
             n \in BOOLEAN, z \in BOOLEAN}
    \cup {HandlerValue(FALSE, FALSE, "func", FALSE, a, o, z) :
             a \in ParamLists, o \in ResultLists, z \in BOOLEAN}

\* handler.(http.Handler)
IsHTTPHandler(h) == h.impl

\* handler.(func(http.ResponseWriter, *http.Request)): the dynamic type is
\* identical to that unnamed function type.
IsHandlerFunc(h) ==
    h.kind = "func" /\ ~h.named /\ h.ins = RawIns /\ h.outs = <<>>

Ok == "ok"

checkHandler_late_nil(h) ==
    IF h.untyped THEN "error: nil handler"
    ELSE IF IsHTTPHandler(h) THEN Ok
    ELSE IF h.kind # "func" THEN "handler must be a function or a http.Handler"
    ELSE IF Len(h.ins) < 1 \/ Len(h.ins) > 2
        THEN "handler function must have 1 or 2 arguments"
    ELSE IF IsHandlerFunc(h) THEN Ok
    ELSE IF h.zero THEN "handler must be a non-nil function"
    ELSE IF h.ins[1] # TRequest
        THEN "handler: first argument of function must have type *api.Request"
    ELSE IF Len(h.outs) # 2 THEN "handler: function must have 2 return values"
    ELSE IF h.outs[2] # TError
        THEN "handler: second return value of function must have type error"
    ELSE Ok

\* checkHandler: Ok, or the message it panics with.
checkHandler(h) ==
    IF h.untyped THEN "error: nil handler"
    ELSE IF IsHTTPHandler(h) THEN Ok
    ELSE IF h.kind # "func" THEN "handler must be a function or a http.Handler"
    ELSE IF Len(h.ins) < 1 \/ Len(h.ins) > 2
        THEN "handler function must have 1 or 2 arguments"
    ELSE IF h.zero THEN "handler must be a non-nil function"
    ELSE IF IsHandlerFunc(h) THEN Ok
    ELSE IF h.ins[1] # TRequest
        THEN "handler: first argument of function must have type *api.Request"
    ELSE IF Len(h.outs) # 2 THEN "handler: function must have 2 return values"
    ELSE IF h.outs[2] # TError
        THEN "handler: second return value of function must have type error"
    ELSE Ok

(***************************************************************************)
(* 2. Error taxonomy and response encoding (src/http.go)                   *)
(*                                                                         *)
(* An error is its Unwrap chain, outermost layer first.  A layer is        *)
(*   "status" - an errHTTPStatus (or any type with HTTPStatus()) and code  *)
(*   "wrap"   - a wrapper such as fmt.Errorf("text: %w", err)              *)
(*   "plain"  - a leaf made by errors.New / fmt.Errorf without %w          *)
(*   "norows" - the leaf sql.ErrNoRows                                     *)
(***************************************************************************)
NoCode == 0 - 1
NoRowsText == "sql: no rows in result set"

StatusLayer(c) == [k |-> "status", code |-> c, text |-> ""]
WrapLayer(t) == [k |-> "wrap", code |-> NoCode, text |-> t]
PlainLeaf(t) == [k |-> "plain", code |-> NoCode, text |-> t]
ErrNoRows == <<[k |-> "norows", code |-> NoCode, text |-> NoRowsText]>>

\* errors.New(text)
errorsNew(t) == <<PlainLeaf(t)>>

\* fmt.Errorf(s, a...): a is <<>> or <<err>>; with an error argument the
\* format is one that wraps it with %w.
Errorf(s, a) == IF a = <<>> THEN errorsNew(s) ELSE <<WrapLayer(s)>> \o a[1]

\* The status codes application errors declare (0 is what HTTPError(0, ...)
\* declares), and the texts of their leaves.
DeclaredCodes == {0, 404, 409}
LeafTexts == {"boom", "bang"}
Leaves == {errorsNew(t) : t \in LeafTexts} \cup {ErrNoRows}
Wrappers == {StatusLayer(c) : c \in DeclaredCodes} \cup {WrapLayer("ctx")}

RECURSIVE Wrapped(_)
Wrapped(n) ==
    IF n = 0 THEN Leaves
    ELSE LET inner == Wrapped(n - 1)
         IN  inner \cup {<<w>> \o e : w \in Wrappers, e \in inner}

\* Every error value of the model: a leaf under at most MaxWrap wrappers.
Errors == Wrapped(MaxWrap)

\* err.Error(): errHTTPStatus.Error() is the inner error's text, a wrapper
\* prefixes its own.
ErrorText(e) == SelectSeq([i \in 1 .. Len(e) |-> e[i].text], LAMBDA t : t # "")

\* errors.As(err, &eh) with eh of type HTTPStatus: the outermost layer that
\* has the method, 0 when there is none.
AsHTTPStatus(e) ==
    LET idx == {i \in 1 .. Len(e) : e[i].k = "status"}
    IN  IF idx = {} THEN 0 ELSE CHOOSE i \in idx : \A j \in idx : i <= j

\* errors.Is(err, sql.ErrNoRows)
IsErrNoRows(e) == \E i \in 1 .. Len(e) : e[i].k = "norows"

\* HTTPError(code, f, a...) for f an error (FromErr) or a string (FromStr).
FromErr(e) == [t |-> "error", err |-> e, str |-> ""]
FromStr(s) == [t |-> "string", err |-> <<>>, str |-> s]

HTTPError(code, f, a) ==
    LET err == IF f.t = "error" THEN f.err
               ELSE IF Len(a) > 0 THEN Errorf(f.str, a)
               ELSE errorsNew(f.str)
    IN  <<StatusLayer(code)>> \o err

\* A response: the code given to WriteHeader (NoCode: none yet), the Content-Type
\* the package set, and the body as label and message.
NoResponse == [status |-> NoCode, ctype |-> "", label |-> "", msg |-> <<>>]

\* httpMessage(w, code, label, msg)
httpMessage(code, label, msg) ==
    [status |-> code, ctype |-> "application/json", label |-> label, msg |-> msg]

httpError_sentinel_first(f, a) ==
    LET err == IF f.t = "error" THEN f.err ELSE Errorf(f.str, a)
    IN  IF IsErrNoRows(err)
            THEN httpMessage(StatusNotFound, "error", <<"not found">>)
        ELSE IF AsHTTPStatus(err) # 0
            THEN httpMessage(err[AsHTTPStatus(err)].code, "error", ErrorText(err))
        ELSE httpMessage(StatusBadRequest, "error", ErrorText(err))

httpError_keeps_text(f, a) ==
    LET err == IF f.t = "error" THEN f.err ELSE Errorf(f.str, a)
    IN  IF AsHTTPStatus(err) # 0
            THEN httpMessage(err[AsHTTPStatus(err)].code, "error", ErrorText(err))
        ELSE IF IsErrNoRows(err)
            THEN httpMessage(StatusNotFound, "error", ErrorText(err))
        ELSE httpMessage(StatusBadRequest, "error", ErrorText(err))

\* httpError(w, f, a...): the response it writes.
httpError(f, a) ==
    LET err == IF f.t = "error" THEN f.err ELSE Errorf(f.str, a)
    IN  IF AsHTTPStatus(err) # 0
            THEN httpMessage(err[AsHTTPStatus(err)].code, "error", ErrorText(err))
        ELSE IF IsErrNoRows(err)
            THEN httpMessage(StatusNotFound, "error", <<"not found">>)
        ELSE httpMessage(StatusBadRequest, "error", ErrorText(err))

\* httpCodeError(w, code, f, a...)
httpCodeError(code, f, a) == httpError(FromErr(HTTPError(code, f, a)), <<>>)

\* httpInfo(w, msg)
httpInfo(msg) == httpMessage(StatusOK, "info", <<msg>>)

(***************************************************************************)
(* 3. The server (src/server.go)                                           *)
(***************************************************************************)
VARIABLES
    middlewares,    \* s.middlewares, in registration order
    values,         \* s.values
    patterns,       \* s.patterns
    mux,            \* s.mux: pattern -> dispatch entry
    once,           \* s.once: the done flag and the holder of its mutex
    handler,        \* s.handler: the composed chain
    maps,           \* the maps held in request contexts, by identity
    rq,             \* the requests being served, one goroutine each
    app,            \* what the application code and the clients may do
    frozen,         \* the middlewares registered when the first request came
    builds,         \* how many times the body of once.Do has run
    lastReg,        \* the outcome of the last Handle / Handler call
    srv             \* the call of Serve: its listeners and goroutines

vars == <<middlewares, values, patterns, mux, once, handler, maps, rq, app,
          frozen, builds, lastReg, srv>>

\* Values of the stores: nil, "no entry", a value given with Server.Set and
\* the value request r gives with Request.Set.
Nil == [src |-> "nil", id |-> 0]
Absent == [src |-> "absent", id |-> 0]
ServerVal(i) == [src |-> "server", id |-> i]
ReqVal(r) == [src |-> "request", id |-> r]
ServerVals == {ServerVal(1), ServerVal(2)}

NoMap == 0
EmptyMap == [k \in Keys |-> Absent]

\* make(map[string]any) in the goroutine of request r: a map of its own.
NewMap_shared(r) == 1

NewMap(r) == r

\* Request.Set on the wrapper whose request carries map req (NoMap: none):
\* the maps and the map the wrapper's request carries afterwards.
RequestSet(ms, req, r, key, value) ==
    LET m == IF req # NoMap THEN req ELSE NewMap(r)
    IN  [maps |-> [ms EXCEPT ![m] = IF req # NoMap THEN [@ EXCEPT ![key] = value]
                                    ELSE [EmptyMap EXCEPT ![key] = value]],
         req |-> m]

\* Request.Get
RequestGet(ms, req, key) ==
    IF req = NoMap THEN Nil
    ELSE IF ms[req][key] = Absent THEN Nil ELSE ms[req][key]

\* Server.Get
ServerGet(key) == IF values[key] = Absent THEN Nil ELSE values[key]

RECURSIVE SetAll(_, _, _, _)
SetAll(ms, req, r, keys) ==
    IF keys = {} THEN [maps |-> ms, req |-> req]
    ELSE LET key == CHOOSE k \in keys : TRUE
             one == RequestSet(ms, req, r, key, values[key])
         IN  SetAll(one.maps, one.req, r, keys \ {key})

newRequest_pooled(ms, r) == SetAll(ms, 1, r, {k \in Keys : values[k] # Absent})

newRequest_empty(ms, r) == [maps |-> ms, req |-> NoMap]

\* newRequest: a wrapper of the incoming request, then Set for every pair
\* of s.values.
newRequest(ms, r) == SetAll(ms, NoMap, r, {k \in Keys : values[k] # Absent})

\* The decoding target a closure captured when it was made: none for the
\* Handler of lines 251-324, which allocates one per request; the `input`
\* of the Handler of lines 584-646, nil unless the function has two
\* parameters, with the fields decoding has set in it so far.
NoCapture == [held |-> FALSE, nil |-> FALSE, fields |-> {}]
Captured(a) == [held |-> TRUE, nil |-> a # 2, fields |-> {}]

\* A dispatch entry of s.mux: what Handler(handler, permFuncs...) captured.
\* other is set for a HandlerWS entry only.
NoEntry ==
    [shape |-> "none", nargs |-> 0, tinput |-> "", nperm |-> 0, zero |-> FALSE,
     other |-> "", input |-> NoCapture]
RawEntry(n, z) ==
    [shape |-> "raw", nargs |-> 0, tinput |-> "", nperm |-> n, zero |-> z, other |-> "",
     input |-> NoCapture]
FuncEntry(a, t, n) ==
    [shape |-> "func", nargs |-> a, tinput |-> t, nperm |-> n, zero |-> FALSE,
     other |-> "", input |-> NoCapture]

\* What HandlerWS(handler, handlerOther) captured: handlerOther, held as the
\* entry Handler(handlerOther) makes of it at each request ("none" for a nil
\* handlerOther).
WSEntry(o) ==
    [shape |-> "ws", nargs |-> o.nargs, tinput |-> o.tinput, nperm |-> 0,
     zero |-> o.zero, other |-> o.shape, input |-> o.input]

\* Handler(handler, permFuncs...) for a handler checkHandler accepts.
Handler(h, n) ==
    IF IsHTTPHandler(h) \/ IsHandlerFunc(h) THEN RawEntry(n, h.zero)
    ELSE FuncEntry(Len(h.ins), IF Len(h.ins) = 2 THEN h.ins[2] ELSE "", n)

\* Handler(handler, permFuncs...) as lines 584-646 define it: `input` is
\* allocated here, once, and captured by the closure.
Handler2(h, n) ==
    IF IsHTTPHandler(h) \/ IsHandlerFunc(h) THEN RawEntry(n, h.zero)
    ELSE [FuncEntry(Len(h.ins), IF Len(h.ins) = 2 THEN h.ins[2] ELSE "", n)
             EXCEPT !.input = Captured(Len(h.ins))]

\* HandlerWS(handler, handlerOther) for a handlerOther that is nil or that
\* checkHandler accepts (lines 349-352).
HandlerWS(h) == IF h.untyped THEN WSEntry(NoEntry) ELSE WSEntry(Handler(h, 0))

NilHandler == [set |-> FALSE, mws |-> <<>>]

\* The headers Connection and Upgrade of a request.
NoHeaders == [connection |-> "", upgrade |-> ""]
Headers == [connection : {"", "Upgrade"}, upgrade : {"", "websocket", "h2c"}]

\* A value handed to output (src/unnamed/part_002): its kind, the status its
\* HTTPStatus method reports (NoCode: it has no such method), the kind of
\* the value an outWithHTTPStatus holds, and the chain of an error.
OutValue(k, c, v, e) == [kind |-> k, status |-> c, val |-> v, err |-> e]
NoOut == OutValue("", NoCode, "", <<>>)

NoBody == [cl |-> 0, json |-> "", fields |-> {}]
NoResult == [out |-> "", err |-> <<>>]

IdleRq ==
    [pc |-> "idle", ctx |-> NoMap, req |-> NoMap, h |-> NilHandler, i |-> 0,
     pos |-> 0, seen |-> <<>>, routed |-> FALSE, pat |-> "", pvals |-> <<>>,
     pidx |-> 0, asked |-> <<>>, body |-> NoBody, decoded |-> FALSE, entered |-> 0,
     calls |-> 0, arg |-> {}, trace |-> <<>>, val |-> NoOut, hdr |-> NoHeaders, duplex |-> 0,
     checks |-> 0, built |-> 0,
     res |-> NoResult, resp |-> NoResponse, stage |-> "none",
     wrote |-> EmptyMap, wroteAt |-> [k \in Keys |-> "none"]]

InFlight(r) == rq[r].pc # "idle"
Quiet == \A r \in Reqs : ~InFlight(r)

(***************************************************************************)
(* Registration: AddMiddleware, Server.Set, Handle, Handler.  The code     *)
(* asks that they do not run concurrently with requests; they are taken    *)
(* while no request is in flight.                                          *)
(***************************************************************************)
AddMiddleware_wraps_built(f) ==
    /\ Quiet
    /\ Len(middlewares) < MaxMw
    /\ \A i \in 1 .. Len(middlewares) : middlewares[i] # f
    /\ middlewares' = Append(middlewares, f)
    /\ handler' = IF once.done THEN [handler EXCEPT !.mws = Append(@, f)] ELSE handler
    /\ UNCHANGED <<values, patterns, mux, once, maps, rq, app, frozen,
                   builds, lastReg, srv>>

AddMiddleware(f) ==
    /\ Quiet
    /\ Len(middlewares) < MaxMw
    /\ \A i \in 1 .. Len(middlewares) : middlewares[i] # f
    /\ middlewares' = Append(middlewares, f)
    /\ UNCHANGED <<values, patterns, mux, once, handler, maps, rq, app, frozen,
                   builds, lastReg, srv>>

ServerSet(key, value) ==
    /\ Quiet
    /\ values[key] # value
    /\ values' = [values EXCEPT ![key] = value]
    /\ UNCHANGED <<middlewares, patterns, mux, once, handler, maps, rq, app,
                   frozen, builds, lastReg, srv>>

\* Handler(h, permFuncs...) called on its own.
HandlerCall(h, n) ==
    /\ Quiet
    /\ lastReg' = [call |-> "Handler", h |-> h, pattern |-> "",
                   outcome |-> checkHandler(h)]
    /\ UNCHANGED <<middlewares, values, patterns, mux, once, handler, maps, rq,
                   app, frozen, builds, srv>>

Handle_last_wins(pattern, h, n) ==
    /\ Quiet
    /\ Len(patterns) < MaxHandle
    /\ IF checkHandler(h) # Ok
          THEN /\ lastReg' = [call |-> "Handle", h |-> h, pattern |-> pattern,
                              outcome |-> checkHandler(h)]
               /\ UNCHANGED <<patterns, mux>>
          ELSE /\ patterns' = Append(patterns, pattern)
               /\ lastReg' = [call |-> "Handle", h |-> h, pattern |-> pattern,
                              outcome |-> Ok]
               /\ mux' = [mux EXCEPT ![pattern] = Handler(h, n)]
    /\ UNCHANGED <<middlewares, values, once, handler, maps, rq, app, frozen, builds,
                   srv>>

\* s.Handle(pattern, h, permFuncs...): checkHandler, append to s.patterns,
\* then s.mux.Handle, which panics when the pattern is registered already.
Handle(pattern, h, n) ==
    /\ Quiet
    /\ Len(patterns) < MaxHandle
    /\ IF checkHandler(h) # Ok
          THEN /\ lastReg' = [call |-> "Handle", h |-> h, pattern |-> pattern,
                              outcome |-> checkHandler(h)]
               /\ UNCHANGED <<patterns, mux>>
          ELSE /\ patterns' = Append(patterns, pattern)
               /\ IF mux[pattern] # NoEntry
                     THEN /\ lastReg' = [call |-> "Handle", h |-> h, pattern |-> pattern,
                                         outcome |-> "http: multiple registrations"]
                          /\ UNCHANGED mux
                     ELSE /\ lastReg' = [call |-> "Handle", h |-> h, pattern |-> pattern,
                                         outcome |-> Ok]
                          /\ mux' = [mux EXCEPT ![pattern] = Handler(h, n)]
    /\ UNCHANGED <<middlewares, values, once, handler, maps, rq, app, frozen, builds,
                   srv>>

(***************************************************************************)
(* Serving a request: Server.ServeHTTP, the middleware chain, the router   *)
(* and the dispatch closure built by Handler / handleWithPerm.             *)
(***************************************************************************)
Upd(r, rec) == rq' = [rq EXCEPT ![r] = rec]

\* The application code of a stage may call Request.Set(key, ReqVal(r)) on
\* its wrapper: the maps and the request record afterwards.
UserSet(rec, r, key, at, doSet) ==
    IF doSet
        THEN LET st == RequestSet(maps, rec.req, r, key, ReqVal(r))
             IN  [maps |-> st.maps,
                  rec |-> [rec EXCEPT !.req = st.req, !.stage = at,
                                      !.wrote[key] = ReqVal(r), !.wroteAt[key] = at]]
        ELSE [maps |-> maps, rec |-> [rec EXCEPT !.stage = at]]

SetChoices == IF app.sets THEN BOOLEAN ELSE {FALSE}

\* ServeHTTP, line 43: req := s.newRequest(r)
ServeHTTP(r) ==
    /\ rq[r].pc = "idle"
    /\ r \in app.clients
    /\ LET nr == newRequest(maps, r)
       IN  /\ maps' = nr.maps
           /\ Upd(r, [IdleRq EXCEPT !.pc = "once", !.ctx = nr.req, !.req = nr.req])
    /\ frozen' = IF frozen.set THEN frozen ELSE [set |-> TRUE, mws |-> middlewares]
    /\ UNCHANGED <<middlewares, values, patterns, mux, once, handler, app, builds,
                   lastReg, srv>>

\* Leaving once.Do: line 50 reads s.handler and calls its ServeHTTP with
\* req.Request.
Serve(rec, hd) == [rec EXCEPT !.pc = "chain", !.h = hd, !.pos = 1, !.ctx = rec.req]

\* once.Do, fast path: done is set already.
OnceFast(r) ==
    /\ rq[r].pc = "once"
    /\ once.done
    /\ Upd(r, Serve(rq[r], handler))
    /\ UNCHANGED <<middlewares, values, patterns, mux, once, handler, maps, app,
                   frozen, builds, lastReg, srv>>

\* once.Do: done is not set, so doSlow is called.
OnceMiss(r) ==
    /\ rq[r].pc = "once"
    /\ ~once.done
    /\ Upd(r, [rq[r] EXCEPT !.pc = "lock"])
    /\ UNCHANGED <<middlewares, values, patterns, mux, once, handler, maps, app,
                   frozen, builds, lastReg, srv>>

OnceLock_nomutex(r) ==
    /\ rq[r].pc = "lock"
    /\ once' = [once EXCEPT !.m = r]
    /\ Upd(r, [rq[r] EXCEPT !.pc = "locked"])
    /\ UNCHANGED <<middlewares, values, patterns, mux, handler, maps, app, frozen,
                   builds, lastReg, srv>>

\* doSlow: take the mutex of the Once.
OnceLock(r) ==
    /\ rq[r].pc = "lock"
    /\ once.m = 0
    /\ once' = [once EXCEPT !.m = r]
    /\ Upd(r, [rq[r] EXCEPT !.pc = "locked"])
    /\ UNCHANGED <<middlewares, values, patterns, mux, handler, maps, app, frozen,
                   builds, lastReg, srv>>

\* once.Do, slow path with the mutex held: run the function unless done;
\* the function starts with s.handler = s.mux (line 45).
OnceSlow(r) ==
    /\ rq[r].pc = "locked"
    /\ IF once.done
          THEN /\ once' = [once EXCEPT !.m = 0]
               /\ Upd(r, Serve(rq[r], handler))
               /\ UNCHANGED <<handler, builds>>
          ELSE /\ handler' = [set |-> TRUE, mws |-> <<>>]
               /\ Upd(r, [rq[r] EXCEPT !.pc = "build", !.i = Len(middlewares)])
               /\ builds' = IF builds < NReq THEN builds + 1 ELSE builds
               /\ UNCHANGED once
    /\ UNCHANGED <<middlewares, values, patterns, mux, maps, app, frozen, lastReg, srv>>

Wrap_append(f, hd) == [hd EXCEPT !.mws = Append(@, f)]

\* middlewares[i](s.handler): f becomes the outermost ring of the chain.
Wrap(f, hd) == [hd EXCEPT !.mws = <<f>> \o @]

\* Lines 46-48, one iteration: s.handler = s.middlewares[i](s.handler)
BuildStep(r) ==
    /\ rq[r].pc = "build"
    /\ rq[r].i >= 1
    /\ handler' = Wrap(middlewares[rq[r].i], handler)
    /\ Upd(r, [rq[r] EXCEPT !.i = @ - 1])
    /\ UNCHANGED <<middlewares, values, patterns, mux, once, maps, app, frozen,
                   builds, lastReg, srv>>

\* The loop is over: once.Do stores done, releases the mutex and returns.
BuildEnd(r) ==
    /\ rq[r].pc = "build"
    /\ rq[r].i = 0
    /\ once' = [done |-> TRUE, m |-> 0]
    /\ Upd(r, Serve(rq[r], handler))
    /\ UNCHANGED <<middlewares, values, patterns, mux, handler, maps, app, frozen,
                   builds, lastReg, srv>>

\* A middleware of the chain runs: it sees the request, may call Set on its
\* wrapper, and calls next.ServeHTTP(w, req.Request).
MwStep(r, key, doSet) ==
    /\ rq[r].pc = "chain"
    /\ rq[r].h.set
    /\ rq[r].pos <= Len(rq[r].h.mws)
    /\ LET rec == [rq[r] EXCEPT !.req = rq[r].ctx,
                                !.seen = Append(@, rq[r].h.mws[rq[r].pos]),
                                !.pos = @ + 1]
           st == UserSet(rec, r, key, "mw", doSet)
       IN  /\ maps' = st.maps
           /\ Upd(r, [st.rec EXCEPT !.ctx = st.rec.req])
    /\ UNCHANGED <<middlewares, values, patterns, mux, once, handler, app, frozen,
                   builds, lastReg, srv>>

\* The response of http.NotFound, which s.mux gives when no pattern matches.
NotFoundResponse ==
    [status |-> StatusNotFound, ctype |-> "text/plain", label |-> "", msg |-> <<"404 page not found">>]

\* The innermost handler, s.mux, gets the request and picks the entry of the
\* matching pattern; the closure of the entry starts with req := &Request{r}.
Route(r, pat, pv) ==
    /\ rq[r].pc = "chain"
    /\ rq[r].h.set
    /\ rq[r].pos > Len(rq[r].h.mws)
    /\ IF mux[pat] = NoEntry
          THEN Upd(r, [rq[r] EXCEPT !.pc = "done", !.routed = TRUE, !.pat = pat,
                                    !.resp = NotFoundResponse,
                                    !.trace = Append(@, "write")])
          ELSE /\ pv \in [1 .. mux[pat].nperm -> BOOLEAN]
               /\ Upd(r, [rq[r] EXCEPT !.pc = IF mux[pat].shape = "ws" THEN "ws" ELSE "perm",
                                       !.routed = TRUE, !.pat = pat,
                                       !.pvals = pv, !.pidx = 1, !.req = rq[r].ctx])
    /\ UNCHANGED <<middlewares, values, patterns, mux, once, handler, maps, app,
                   frozen, builds, lastReg, srv>>

\* The dispatch entry that serves request r: the one of its pattern, or
\* for a HandlerWS entry the one made of handlerOther.
Entry(r) ==
    LET e == mux[rq[r].pat]
    IN  IF e.shape = "ws" THEN [e EXCEPT !.shape = e.other, !.other = ""] ELSE e

\* The test of line 353 on the headers of the request.
Upgrading(hd) == ~(hd.connection # "Upgrade" \/ hd.upgrade # "websocket")

\* http.Error(w, "Bad Request: needs websocket connection", 400)
NeedsWebsocket ==
    [status |-> StatusBadRequest, ctype |-> "text/plain", label |-> "",
     msg |-> <<"Bad Request: needs websocket connection">>]

\* What websocket.Server answers: 101 when the handshake succeeds, an error
\* status when it fails.
HandshakeResponse(ok) ==
    [status |-> IF ok THEN 101 ELSE StatusBadRequest, ctype |-> "", label |-> "websocket",
     msg |-> <<>>]

WSHandler_and(r, hd) ==
    /\ rq[r].pc = "ws"
    /\ LET rec == [rq[r] EXCEPT !.hdr = hd]
           e == mux[rq[r].pat]
       IN  IF hd.connection # "Upgrade" /\ hd.upgrade # "websocket"
               THEN IF e.other # "none"
                        THEN Upd(r, [rec EXCEPT !.pc = "perm", !.checks = @ + 1,
                                                !.built = @ + 1])
                        ELSE Upd(r, [rec EXCEPT !.pc = "done", !.resp = NeedsWebsocket,
                                                !.trace = Append(@, "write")])
               ELSE Upd(r, [rec EXCEPT !.pc = "handshake"])
    /\ UNCHANGED <<middlewares, values, patterns, mux, once, handler, maps, app,
                   frozen, builds, lastReg, srv>>

\* The closure of HandlerWS (lines 352-367): without the two upgrade headers
\* it calls Handler(handlerOther), which runs checkHandler and builds the
\* dispatch closure, and serves the request with it, or answers 400 when
\* handlerOther is nil; with them it hands the request to websocket.Server.
WSHandler(r, hd) ==
    /\ rq[r].pc = "ws"
    /\ LET rec == [rq[r] EXCEPT !.hdr = hd]
           e == mux[rq[r].pat]
       IN  IF ~Upgrading(hd)
               THEN IF e.other # "none"
                        THEN Upd(r, [rec EXCEPT !.pc = "perm", !.checks = @ + 1,
                                                !.built = @ + 1])
                        ELSE Upd(r, [rec EXCEPT !.pc = "done", !.resp = NeedsWebsocket,
                                                !.trace = Append(@, "write")])
               ELSE Upd(r, [rec EXCEPT !.pc = "handshake"])
    /\ UNCHANGED <<middlewares, values, patterns, mux, once, handler, maps, app,
                   frozen, builds, lastReg, srv>>

\* websocket.Server.ServeHTTP (lines 361-366): after a successful handshake
\* it calls handler(req, conn), the duplex handler; after a failed one it
\* answers the error itself.
WSHandshake(r, ok) ==
    /\ rq[r].pc = "handshake"
    /\ Upd(r, [rq[r] EXCEPT !.pc = "done", !.resp = HandshakeResponse(ok),
                            !.duplex = IF ok THEN @ + 1 ELSE @,
                            !.trace = Append(@, "write")])
    /\ UNCHANGED <<middlewares, values, patterns, mux, once, handler, maps, app,
                   frozen, builds, lastReg, srv>>

Allowed_skips_decode(rec, e) ==
    LET in == [rec EXCEPT !.entered = @ + 1, !.trace = Append(@, "permission")]
    IN  IF e.shape = "raw" THEN [in EXCEPT !.pc = "call", !.req = rec.ctx]
        ELSE [in EXCEPT !.pc = "call"]

\* The permission check has passed.  handleWithPerm (line 230) hands the
\* request it received, r, to the raw handler; the closure of Handler goes
\* on with its wrapper req (lines 283-300).  entered counts how often the
\* gated handler was entered, trace records the steps of the dispatch
\* closure in the order they happen: "permission" (the decision of
\* checkPermFuncs), "decode" (decoder.Decode reads the body), "call" (the
\* handler runs and returns) and "write" (the response is written).
Allowed(rec, e) ==
    LET in == [rec EXCEPT !.entered = @ + 1, !.trace = Append(@, "permission")]
    IN  IF e.shape = "raw" THEN [in EXCEPT !.pc = "call", !.req = rec.ctx]
        ELSE IF e.nargs = 1 THEN [in EXCEPT !.pc = "call"]
        ELSE [in EXCEPT !.pc = "body"]

\* httpCodeError(w, http.StatusUnauthorized, "permission denied")
Denied(rec) ==
    [rec EXCEPT !.pc = "done", !.trace = @ \o <<"permission", "write">>,
                !.resp = httpCodeError(StatusUnauthorized, FromStr("permission denied"), <<>>)]

PermEval_exhaustive(r, key, doSet) ==
    /\ rq[r].pc = "perm"
    /\ rq[r].pidx <= Entry(r).nperm
    /\ LET rec == [rq[r] EXCEPT !.asked = Append(@, rq[r].pidx)]
           st == UserSet(rec, r, key, "perm", doSet)
       IN  /\ maps' = st.maps
           /\ IF rq[r].pvals[rq[r].pidx] /\ rq[r].pidx = Entry(r).nperm
                 THEN Upd(r, Allowed(st.rec, Entry(r)))
                 ELSE Upd(r, [st.rec EXCEPT !.pidx = @ + 1])
    /\ UNCHANGED <<middlewares, values, patterns, mux, once, handler, app, frozen,
                   builds, lastReg, srv>>

\* checkPermFuncs, one iteration of the loop (lines 209-213): the predicate
\* gets the wrapper and may call Set on it; true ends the loop with success.
PermEval(r, key, doSet) ==
    /\ rq[r].pc = "perm"
    /\ rq[r].pidx <= Entry(r).nperm
    /\ LET rec == [rq[r] EXCEPT !.asked = Append(@, rq[r].pidx)]
           st == UserSet(rec, r, key, "perm", doSet)
       IN  /\ maps' = st.maps
           /\ IF rq[r].pvals[rq[r].pidx]
                 THEN Upd(r, Allowed(st.rec, Entry(r)))
                 ELSE Upd(r, [st.rec EXCEPT !.pidx = @ + 1])
    /\ UNCHANGED <<middlewares, values, patterns, mux, once, handler, app, frozen,
                   builds, lastReg, srv>>

PermEnd_deny_empty(r) ==
    /\ rq[r].pc = "perm"
    /\ rq[r].pidx > Entry(r).nperm
    /\ Upd(r, Denied(rq[r]))
    /\ UNCHANGED <<middlewares, values, patterns, mux, once, handler, maps, app,
                   frozen, builds, lastReg, srv>>

\* checkPermFuncs, after the loop (lines 214-216): false when there were
\* predicates, true when there were none.
PermEnd(r) ==
    /\ rq[r].pc = "perm"
    /\ rq[r].pidx > Entry(r).nperm
    /\ IF Entry(r).nperm > 0
          THEN Upd(r, Denied(rq[r]))
          ELSE Upd(r, Allowed(rq[r], Entry(r)))
    /\ UNCHANGED <<middlewares, values, patterns, mux, once, handler, maps, app,
                   frozen, builds, lastReg, srv>>

(***************************************************************************)
(* The body of a request and its decoding (lines 287-297).                 *)
(***************************************************************************)
\* A request declares a content length (0 or not) and carries a body: a
\* JSON object with some fields, JSON null, or text that is not JSON.
JSONObject(fs) == [cl |-> 1, json |-> "object", fields |-> fs]
JSONNull == [cl |-> 1, json |-> "null", fields |-> {}]
Malformed == [cl |-> 1, json |-> "malformed", fields |-> {}]
\* Chunked: no declared length (ContentLength -1) and nothing in the body.
Chunked == [cl |-> NoCode, json |-> "", fields |-> {}]
Bodies ==
    {NoBody, Chunked, JSONNull, Malformed} \cup {JSONObject(fs) : fs \in SUBSET FieldNames}

\* The fields of the declared input type: struct{A} has A, any has none to
\* check against.
StructFields == {"A"}

Decode_lenient(tinput, b) ==
    IF b.json = "" THEN [err |-> errorsNew("EOF"), null |-> FALSE]
    ELSE IF b.json = "malformed"
        THEN [err |-> errorsNew("invalid character"), null |-> FALSE]
    ELSE IF b.json = "null" THEN [err |-> <<>>, null |-> TRUE]
    ELSE [err |-> <<>>, null |-> FALSE]

\* decoder.DisallowUnknownFields(); decoder.Decode(&input) with input a
\* new value of the input type: the error, or whether input was set to nil.
Decode(tinput, b) ==
    IF b.json = "" THEN [err |-> errorsNew("EOF"), null |-> FALSE]
    ELSE IF b.json = "malformed"
        THEN [err |-> errorsNew("invalid character"), null |-> FALSE]
    ELSE IF b.json = "null" THEN [err |-> <<>>, null |-> TRUE]
    ELSE IF tinput = TStruct /\ ~(b.fields \subseteq StructFields)
        THEN [err |-> errorsNew("json: unknown field"), null |-> FALSE]
    ELSE [err |-> <<>>, null |-> FALSE]

ReadBody_no_length_check(rec, e, b) ==
    LET d == Decode(e.tinput, b)
    IN  IF d.err # <<>>
            THEN [rec EXCEPT !.pc = "done", !.body = b, !.trace = @ \o <<"decode", "write">>,
                             !.resp = httpError(FromStr("parsing body"), <<d.err>>)]
        ELSE IF d.null
            THEN [rec EXCEPT !.pc = "panicked", !.body = b, !.trace = Append(@, "decode")]
        ELSE [rec EXCEPT !.pc = "call", !.body = b, !.decoded = TRUE,
                         !.arg = b.fields, !.trace = Append(@, "decode")]

\* Lines 287-299 for a request with body b: the content length check, the
\* decoding, and reflect.ValueOf(input).Elem(), which panics on a nil input.
ReadBody(rec, e, b) ==
    IF b.cl = 0
        THEN [rec EXCEPT !.pc = "done", !.body = b, !.trace = Append(@, "write"),
                         !.resp = httpError(FromStr("no body supplied"), <<>>)]
    ELSE LET d == Decode(e.tinput, b)
         IN  IF d.err # <<>>
                 THEN [rec EXCEPT !.pc = "done", !.body = b,
                                  !.trace = @ \o <<"decode", "write">>,
                                  !.resp = httpError(FromStr("parsing body"), <<d.err>>)]
             ELSE IF d.null
                 THEN [rec EXCEPT !.pc = "panicked", !.body = b,
                                  !.trace = Append(@, "decode")]
             ELSE [rec EXCEPT !.pc = "call", !.body = b, !.decoded = TRUE,
                              !.arg = b.fields, !.trace = Append(@, "decode")]

Body(r, b) ==
    /\ rq[r].pc = "body"
    /\ ~Entry(r).input.held
    /\ b \in app.bodies
    /\ Upd(r, ReadBody(rq[r], Entry(r), b))
    /\ UNCHANGED <<middlewares, values, patterns, mux, once, handler, maps, app,
                   frozen, builds, lastReg, srv>>

\* decoder.Decode(&input) of line 615 on the captured input: the error and
\* what the input holds afterwards. A struct already there is decoded into,
\* keeping the fields the body does not name (an unknown field is reported
\* after the known ones were stored); null sets input to nil, and a nil
\* input receives a generic value, which is no pointer either.
Decode2(inp, tinput, b) ==
    IF b.json = "" THEN [err |-> errorsNew("EOF"), input |-> inp]
    ELSE IF b.json = "malformed"
        THEN [err |-> errorsNew("invalid character"), input |-> inp]
    ELSE IF b.json = "null" \/ inp.nil
        THEN [err |-> <<>>, input |-> [inp EXCEPT !.nil = TRUE, !.fields = {}]]
    ELSE IF tinput = TStruct
        THEN [err |-> IF b.fields \subseteq StructFields THEN <<>>
                      ELSE errorsNew("json: unknown field"),
              input |-> [inp EXCEPT !.fields = @ \cup (b.fields \cap StructFields)]]
    ELSE [err |-> <<>>, input |-> [inp EXCEPT !.fields = b.fields]]

\* Lines 609-618 for a request with body b: the content length check and
\* the decoding into the captured input.
Body2(r, b) ==
    /\ rq[r].pc = "body"
    /\ Entry(r).input.held
    /\ b \in app.bodies
    /\ IF b.cl = 0
          THEN /\ Upd(r, [rq[r] EXCEPT !.pc = "done", !.body = b,
                                       !.trace = Append(@, "write"),
                                       !.resp = httpError(FromStr("no body supplied"),
                                                          <<>>)])
               /\ mux' = mux
          ELSE LET d == Decode2(Entry(r).input, Entry(r).tinput, b)
               IN  /\ mux' = [mux EXCEPT ![rq[r].pat].input = d.input]
                   /\ IF d.err # <<>>
                         THEN Upd(r, [rq[r] EXCEPT
                                         !.pc = "done", !.body = b,
                                         !.trace = @ \o <<"decode", "write">>,
                                         !.resp = httpError(FromStr("parsing body"),
                                                            <<d.err>>)])
                         ELSE Upd(r, [rq[r] EXCEPT !.pc = "elem", !.body = b,
                                                   !.trace = Append(@, "decode")])
    /\ UNCHANGED <<middlewares, values, patterns, once, handler, maps, app,
                   frozen, builds, lastReg, srv>>

\* reflect.ValueOf(input).Elem() of line 620: the argument is what the
\* captured input holds when the call is made; it panics on an input that
\* is no pointer.
Elem2(r) ==
    /\ rq[r].pc = "elem"
    /\ IF Entry(r).input.nil
          THEN Upd(r, [rq[r] EXCEPT !.pc = "panicked"])
          ELSE Upd(r, [rq[r] EXCEPT !.pc = "call", !.decoded = TRUE,
                                    !.arg = Entry(r).input.fields])
    /\ UNCHANGED <<middlewares, values, patterns, mux, once, handler, maps, app,
                   frozen, builds, lastReg, srv>>

(***************************************************************************)
(* The call of the handler and the encoding of its result (lines 283-322). *)
(***************************************************************************)
Outputs == {"string", "bytes", "struct", "chan"}
Results == [out : Outputs, err : {<<>>} \cup Errors]

OkString == [out |-> "string", err |-> <<>>]

\* What the functions of this application return: any output with any error
\* or none, or always ("string", nil).
Returns == IF app.errs THEN Results ELSE {OkString}

\* What a raw transport handler writes is its own business.
RawResponse == [status |-> StatusOK, ctype |-> "", label |-> "raw", msg |-> <<>>]

\* The handler runs: a raw handler writes the response itself (a nil
\* http.HandlerFunc panics); a function returns (output, error).
Call(r, res, key, doSet) ==
    /\ rq[r].pc = "call"
    /\ LET st == UserSet([rq[r] EXCEPT !.calls = @ + 1, !.trace = Append(@, "call")],
                          r, key, "handler", doSet)
       IN  /\ maps' = st.maps
           /\ IF Entry(r).shape = "raw"
                 THEN /\ res = NoResult
                      /\ IF Entry(r).zero
                            THEN Upd(r, [st.rec EXCEPT !.pc = "panicked"])
                            ELSE Upd(r, [st.rec EXCEPT !.pc = "done", !.resp = RawResponse,
                                                       !.trace = Append(@, "write")])
                 ELSE /\ res \in Returns
                      /\ Upd(r, [st.rec EXCEPT !.pc = "ret", !.res = res])
    /\ UNCHANGED <<middlewares, values, patterns, mux, once, handler, app, frozen,
                   builds, lastReg, srv>>

\* httpJSON(w, output): the status line and header go out first; an output
\* json cannot encode ends as an error text in the body.
httpJSON(out) ==
    [status |-> StatusOK, ctype |-> "application/json",
     label |-> IF out = "chan" THEN "error" ELSE "json",
     msg |-> IF out = "chan" THEN <<"json: unsupported type">> ELSE <<out>>]

Respond_bytes_as_json(res) ==
    IF res.err # <<>> THEN httpError(FromErr(res.err), <<>>)
    ELSE IF res.out = "string" THEN httpInfo(res.out)
    ELSE httpJSON(res.out)

\* Lines 301-322: a non-nil error goes to httpError; otherwise the response
\* depends on the type of the output.
Respond(res) ==
    IF res.err # <<>> THEN httpError(FromErr(res.err), <<>>)
    ELSE IF res.out = "string" THEN httpInfo(res.out)
    ELSE IF res.out = "bytes"
        THEN [status |-> StatusOK, ctype |-> "", label |-> "bytes", msg |-> <<res.out>>]
    ELSE httpJSON(res.out)

Encode_reports_failure(r) ==
    /\ rq[r].pc = "ret"
    /\ IF rq[r].res.err = <<>> /\ rq[r].res.out = "chan"
          THEN Upd(r, [rq[r] EXCEPT
                          !.pc = "done",
                          !.resp = httpError(FromStr("json: unsupported type"), <<>>),
                          !.trace = @ \o <<"write", "write">>])
          ELSE Upd(r, [rq[r] EXCEPT !.pc = "done", !.resp = Respond(rq[r].res),
                                    !.trace = Append(@, "write")])
    /\ UNCHANGED <<middlewares, values, patterns, mux, once, handler, maps, app,
                   frozen, builds, lastReg, srv>>

Encode(r) ==
    /\ rq[r].pc = "ret"
    /\ Upd(r, [rq[r] EXCEPT !.pc = "done", !.resp = Respond(rq[r].res),
                            !.trace = Append(@, "write")])
    /\ UNCHANGED <<middlewares, values, patterns, mux, once, handler, maps, app,
                   frozen, builds, lastReg, srv>>

\* The request is over; its goroutine and its context are gone.
Finish(r) ==
    /\ rq[r].pc \in {"done", "panicked"}
    /\ Upd(r, IdleRq)
    /\ maps' = [maps EXCEPT ![r] = EmptyMap]
    /\ UNCHANGED <<middlewares, values, patterns, mux, once, handler, app, frozen,
                   builds, lastReg, srv>>

(***************************************************************************)
(* Server.Serve (lines 68-108).                                            *)
(*                                                                         *)
(* An address is the sequence of the tokens of its text, so that the       *)
(* parsing of Serve (strings.Cut, HasPrefix, Contains) works on it.        *)
(***************************************************************************)
\* "tcp!:80", "bogus!x", "/run", ":80", "localhost", "/run:80",
\* "unix!/run!x", "!:80" and "".
Addresses ==
    {<<"tcp", "!", ":", "80">>, <<"bogus", "!", "x">>, <<"/", "run">>, <<":", "80">>,
     <<"localhost">>, <<"/", "run", ":", "80">>, <<"unix", "!", "/", "run", "!", "x">>,
     <<"!", ":", "80">>, <<>>}

\* The lists of addresses a call of Serve is given.
AddrLists == UNION {[1 .. n -> Addresses] : n \in 0 .. MaxAddrs}
Listeners == 1 .. MaxAddrs

\* strings.Cut(s, sep): s around the first sep.
Cut(s, sep) ==
    LET at == {j \in 1 .. Len(s) : s[j] = sep}
    IN  IF at = {} THEN [before |-> s, after |-> <<>>, found |-> FALSE]
        ELSE LET p == CHOOSE j \in at : \A k \in at : j <= k
             IN  [before |-> SubSeq(s, 1, p - 1), after |-> SubSeq(s, p + 1, Len(s)),
                  found |-> TRUE]
HasPrefix(s, t) == Len(s) >= 1 /\ s[1] = t
Contains(s, t) == \E j \in 1 .. Len(s) : s[j] = t

Resolve_colon_first(ad) ==
    LET c == Cut(ad, "!")
    IN  IF c.found THEN [ok |-> TRUE, network |-> c.before, addr |-> c.after]
        ELSE IF Contains(ad, ":") THEN [ok |-> TRUE, network |-> <<"tcp">>, addr |-> ad]
        ELSE IF HasPrefix(ad, "/") THEN [ok |-> TRUE, network |-> <<"unix">>, addr |-> ad]
        ELSE [ok |-> FALSE, network |-> <<>>, addr |-> <<>>]

\* Lines 75-89: the network and the address to listen on; ok is FALSE for
\* an unrecognized address.
Resolve(ad) ==
    LET c == Cut(ad, "!")
    IN  IF c.found THEN [ok |-> TRUE, network |-> c.before, addr |-> c.after]
        ELSE IF HasPrefix(ad, "/") THEN [ok |-> TRUE, network |-> <<"unix">>, addr |-> ad]
        ELSE IF Contains(ad, ":") THEN [ok |-> TRUE, network |-> <<"tcp">>, addr |-> ad]
        ELSE [ok |-> FALSE, network |-> <<>>, addr |-> <<>>]

\* The networks net.Listen knows among those of the model; on any other it
\* fails.
KnownNetworks == {<<"tcp">>, <<"unix">>}

\* The errors Serve returns: none yet, no addresses, an unrecognized
\* address, the error of net.Listen, the error of http.Serve on a listener.
NoError == [kind |-> "", at |-> 0]
ServeError(k, i) == [kind |-> k, at |-> i]

\* The call of Serve: where it stands, its addresses, the index of the loop,
\* its listeners (by the index of their address) and those still open, the
\* goroutine of each listener ("none", "serving" in http.Serve, "sending"
\* its error on errs, "exited"), the listeners that accepted a connection,
\* the calls of net.Listen made and the error returned.
IdleServe ==
    [pc |-> "idle", addrs |-> <<>>, i |-> 0, listeners |-> <<>>, open |-> {},
     gor |-> [l \in Listeners |-> "none"], accepted |-> {}, early |-> {},
     listens |-> <<>>,
     recv |-> 0, ret |-> NoError]

\* Lines 69-73.
ServeCall(addrs) ==
    /\ srv.pc = "idle"
    /\ srv' = IF Len(addrs) = 0
                 THEN [srv EXCEPT !.pc = "returned", !.ret = ServeError("no addresses", 0)]
                 ELSE [srv EXCEPT !.pc = "loop", !.addrs = addrs, !.i = 1]
    /\ UNCHANGED <<middlewares, values, patterns, mux, once, handler, maps, rq, app,
                   frozen, builds, lastReg>>

ServeBind_no_rollback(ok) ==
    /\ srv.pc = "loop"
    /\ LET i == srv.i
           to == Resolve(srv.addrs[i])
           listen == [network |-> to.network, addr |-> to.addr]
       IN  srv' =
               IF ~to.ok
                   THEN [srv EXCEPT !.pc = "returned", !.open = {},
                                    !.ret = ServeError("unrecognized address", i)]
               ELSE IF ~ok \/ to.network \notin KnownNetworks
                   THEN [srv EXCEPT !.pc = "returned", !.listens = Append(@, listen),
                                    !.ret = ServeError("listen", i)]
               ELSE [srv EXCEPT !.listeners = Append(@, i), !.open = @ \cup {i},
                                !.listens = Append(@, listen),
                                !.gor[i] = "serving", !.i = i + 1,
                                !.pc = IF i = Len(srv.addrs) THEN "wait" ELSE "loop"]
    /\ UNCHANGED <<middlewares, values, patterns, mux, once, handler, maps, rq, app,
                   frozen, builds, lastReg>>

\* One iteration of the loop (lines 74-102): an unrecognized address or a
\* failure of net.Listen (ok is FALSE, or the network is unknown) closes
\* the listeners opened so far and returns; otherwise the listener is kept
\* and its goroutine starts http.Serve on it.
ServeBind(ok) ==
    /\ srv.pc = "loop"
    /\ LET i == srv.i
           to == Resolve(srv.addrs[i])
           listen == [network |-> to.network, addr |-> to.addr]
       IN  srv' =
               IF ~to.ok
                   THEN [srv EXCEPT !.pc = "returned", !.open = {},
                                    !.ret = ServeError("unrecognized address", i)]
               ELSE IF ~ok \/ to.network \notin KnownNetworks
                   THEN [srv EXCEPT !.pc = "returned", !.open = {},
                                    !.listens = Append(@, listen),
                                    !.ret = ServeError("listen", i)]
               ELSE [srv EXCEPT !.listeners = Append(@, i), !.open = @ \cup {i},
                                !.listens = Append(@, listen),
                                !.gor[i] = "serving", !.i = i + 1,
                                !.pc = IF i = Len(srv.addrs) THEN "wait" ELSE "loop"]
    /\ UNCHANGED <<middlewares, values, patterns, mux, once, handler, maps, rq, app,
                   frozen, builds, lastReg>>

\* http.Serve(l, s) accepts a connection on listener l and serves it; early
\* keeps the listeners that did so while Serve was still in its loop.
Accept(l) ==
    /\ srv.gor[l] = "serving"
    /\ l \in srv.open
    /\ l \notin srv.accepted
    /\ srv' = [srv EXCEPT !.accepted = @ \cup {l},
                          !.early = IF srv.pc = "loop" THEN @ \cup {l} ELSE @]
    /\ UNCHANGED <<middlewares, values, patterns, mux, once, handler, maps, rq, app,
                   frozen, builds, lastReg>>

\* http.Serve(l, s) returns its error (the listener failed or was closed)
\* and the goroutine blocks sending it on errs (lines 99-101).
ServeFail(l) ==
    /\ srv.gor[l] = "serving"
    /\ srv' = [srv EXCEPT !.gor[l] = "sending"]
    /\ UNCHANGED <<middlewares, values, patterns, mux, once, handler, maps, rq, app,
                   frozen, builds, lastReg>>

ServeRecv_keeps_listeners(l) ==
    /\ srv.pc = "wait"
    /\ srv.gor[l] = "sending"
    /\ srv' = [srv EXCEPT !.pc = "returned", !.gor[l] = "exited", !.open = @ \ {l},
                          !.recv = @ + 1, !.ret = ServeError("serve", l)]
    /\ UNCHANGED <<middlewares, values, patterns, mux, once, handler, maps, rq, app,
                   frozen, builds, lastReg>>

\* Lines 103-107: err := <-errs takes the error of a goroutine that is
\* sending, every listener is closed and the error returned.
ServeRecv(l) ==
    /\ srv.pc = "wait"
    /\ srv.gor[l] = "sending"
    /\ srv' = [srv EXCEPT !.pc = "returned", !.gor[l] = "exited", !.open = {},
                          !.recv = @ + 1, !.ret = ServeError("serve", l)]
    /\ UNCHANGED <<middlewares, values, patterns, mux, once, handler, maps, rq, app,
                   frozen, builds, lastReg>>

(***************************************************************************)
(* The encoder of the revision src/unnamed/part_002: output and            *)
(* OutputWithStatus.                                                       *)
(***************************************************************************)
PlainKinds == {"string", "bytes", "struct", "chan", "nil"}
PlainOut(k) == OutValue(k, NoCode, "", <<>>)

\* An error value given as the output.
ErrorOut(e) == OutValue("error", NoCode, "", e)

\* A struct type of the application with a method HTTPStatus() int.
StatusStruct(c) == OutValue("statusstruct", c, "", <<>>)

\* OutputWithStatus(status, out) == outWithHTTPStatus{status, out}
OutputWithStatus(status, out) == OutValue("outWithHTTPStatus", status, out.kind, <<>>)

OutValues ==
    {PlainOut(k) : k \in PlainKinds}
        \cup {ErrorOut(e) : e \in Errors}
        \cup {StatusStruct(c) : c \in DeclaredCodes}
        \cup {OutputWithStatus(c, PlainOut(k)) : c \in DeclaredCodes, k \in PlainKinds}

\* out.(HTTPStatus): the value has the method.
HasHTTPStatus(out) == out.kind \in {"statusstruct", "outWithHTTPStatus"}

\* json.Marshal of a value: the document, named after the kind of the value
\* encoded, or an error for a value json cannot encode.  An
\* outWithHTTPStatus is encoded by its MarshalJSON, json.Marshal(o.output).
Marshal(out) ==
    LET k == IF out.kind = "outWithHTTPStatus" THEN out.val ELSE out.kind
    IN  [err |-> k = "chan", doc |-> IF k = "chan" THEN "" ELSE k]

output_always_ok(out) ==
    IF out.kind = "error" THEN httpError(FromErr(out.err), <<>>)
    ELSE IF out.kind = "string" THEN httpMessage(StatusOK, "info", <<out.kind>>)
    ELSE IF out.kind = "bytes"
        THEN [status |-> StatusOK, ctype |-> "", label |-> "bytes", msg |-> <<out.kind>>]
    ELSE LET m == Marshal(out)
         IN  [status |-> StatusOK, ctype |-> "application/json",
              label |-> IF m.err THEN "error" ELSE "json",
              msg |-> IF m.err THEN <<"json: unsupported type">> ELSE <<m.doc>>]

\* output(w, out): the response it writes.
output(out) ==
    IF out.kind = "error" THEN httpError(FromErr(out.err), <<>>)
    ELSE IF out.kind = "string" THEN httpMessage(StatusOK, "info", <<out.kind>>)
    ELSE IF out.kind = "bytes"
        THEN [status |-> StatusOK, ctype |-> "", label |-> "bytes", msg |-> <<out.kind>>]
    ELSE LET code == IF HasHTTPStatus(out) THEN out.status ELSE StatusOK
             m == Marshal(out)
         IN  [status |-> code, ctype |-> "application/json",
              label |-> IF m.err THEN "error" ELSE "json",
              msg |-> IF m.err THEN <<"json: unsupported type">> ELSE <<m.doc>>]

\* A request whose handler hands out to output.
OutputCall(r, out) ==
    /\ rq[r].pc = "idle"
    /\ r \in app.clients
    /\ Upd(r, [IdleRq EXCEPT !.pc = "done", !.val = out, !.resp = output(out),
                             !.trace = <<"write">>])
    /\ UNCHANGED <<middlewares, values, patterns, mux, once, handler, maps, app,
                   frozen, builds, lastReg, srv>>

(***************************************************************************)
(* Specifications                                                          *)
(***************************************************************************)
PermVectors == UNION {[1 .. n -> BOOLEAN] : n \in 0 .. MaxPerm}

NoValues == [k \in Keys |-> Absent]
NoRoutes == [p \in Patterns |-> NoEntry]
NoReg == [call |-> "", h |-> HandlerValue(TRUE, FALSE, "other", FALSE, <<>>, <<>>, FALSE),
          pattern |-> "", outcome |-> ""]

InitServer(mws, vals, routes, a) ==
    /\ middlewares = mws
    /\ values = vals
    /\ patterns = <<>>
    /\ mux = routes
    /\ once = [done |-> FALSE, m |-> 0]
    /\ handler = NilHandler
    /\ maps = [r \in Reqs |-> EmptyMap]
    /\ rq = [r \in Reqs |-> IdleRq]
    /\ app = a
    /\ frozen = [set |-> FALSE, mws |-> <<>>]
    /\ builds = 0
    /\ lastReg = NoReg
    /\ srv = IdleServe

\* The requests whose goroutine stands at the step pc.
At(pc) == {r \in Reqs : rq[r].pc = pc}

Serving ==
    \/ \E r \in Reqs : ServeHTTP(r)
    \/ \E r \in Reqs : OnceFast(r)
    \/ \E r \in Reqs : OnceMiss(r)
    \/ \E r \in Reqs : OnceLock(r)
    \/ \E r \in Reqs : OnceSlow(r)
    \/ \E r \in Reqs : BuildStep(r)
    \/ \E r \in Reqs : BuildEnd(r)
    \/ \E r \in At("chain"), pat \in app.paths, pv \in PermVectors : Route(r, pat, pv)
    \/ \E r \in At("call"), res \in Returns \cup {NoResult}, k \in Keys,
          d \in SetChoices :
           Call(r, res, k, d)
    \/ \E r \in Reqs : Encode(r)
    \/ \E r \in Reqs : Finish(r)

\* The middleware chain: any registration order of up to MaxMw middlewares,
\* requests racing through once.Do, one route to a 1-argument function.
InitChain ==
    InitServer(<<>>, NoValues, [NoRoutes EXCEPT !["/a"] = FuncEntry(1, "", 0)],
               [clients |-> Reqs, sets |-> FALSE, bodies |-> {NoBody},
                errs |-> FALSE, paths |-> {"/a"}])

NextChain ==
    \/ \E f \in MwIds : AddMiddleware(f)
    \/ \E r \in Reqs, k \in Keys, d \in SetChoices : MwStep(r, k, d)
    \/ \E r \in Reqs : PermEnd(r)
    \/ Serving

SpecChain == InitChain /\ [][NextChain]_vars

\* Registration: Handle and Handler on every handler value.
InitReg ==
    InitServer(<<>>, NoValues, NoRoutes,
               [clients |-> {}, sets |-> FALSE, bodies |-> {NoBody},
                errs |-> FALSE, paths |-> {"/a"}])

NextReg ==
    \/ \E pat \in app.paths, h \in HandlerValues : Handle(pat, h, 0)
    \/ \E h \in HandlerValues : HandlerCall(h, 0)

SpecReg == InitReg /\ [][NextReg]_vars

\* The routes of one pattern: every shape Handler can build, with up to
\* MaxPerm permission predicates.
Entries(zeros) ==
    {RawEntry(n, z) : n \in 0 .. MaxPerm, z \in zeros}
        \cup {FuncEntry(1, "", n) : n \in 0 .. MaxPerm}
        \cup {FuncEntry(2, t, n) : n \in 0 .. MaxPerm, t \in SecondParams}

\* The request scope of one request: no or one middleware, every shape of
\* handler, application code that calls Request.Set at any stage, and
\* Server.Set between requests.
InitScope ==
    \E mws \in {<<>>, <<1>>}, e \in Entries({FALSE}) :
        InitServer(mws, NoValues, [NoRoutes EXCEPT !["/a"] = e],
                   [clients |-> {1}, sets |-> TRUE, bodies |-> {JSONObject({"A"})},
                    errs |-> FALSE, paths |-> {"/a"}])

NextScope ==
    \/ \E k \in Keys, v \in ServerVals : ServerSet(k, v)
    \/ \E r \in Reqs, k \in Keys, d \in SetChoices : MwStep(r, k, d)
    \/ \E r \in Reqs, k \in Keys, d \in SetChoices : PermEval(r, k, d)
    \/ \E r \in Reqs : PermEnd(r)
    \/ \E r \in At("body"), b \in app.bodies : Body(r, b)
    \/ Serving

SpecScope == InitScope /\ [][NextScope]_vars

\* The value stores under concurrent requests: one middleware and a
\* 1-argument handler, both of which may call Request.Set.
InitStore ==
    InitServer(<<1>>, NoValues, [NoRoutes EXCEPT !["/a"] = FuncEntry(1, "", 0)],
               [clients |-> Reqs, sets |-> TRUE, bodies |-> {NoBody},
                errs |-> FALSE, paths |-> {"/a"}])

NextStore ==
    \/ \E k \in Keys, v \in ServerVals : ServerSet(k, v)
    \/ \E r \in Reqs, k \in Keys, d \in SetChoices : MwStep(r, k, d)
    \/ \E r \in Reqs : PermEnd(r)
    \/ Serving

SpecStore == InitStore /\ [][NextStore]_vars

\* One request through one middleware and one dispatch closure: every shape,
\* every outcome of the permission predicates, every body and every result
\* of the handler.
InitDispatch ==
    \E e \in Entries(BOOLEAN) :
        InitServer(<<1>>, NoValues, [NoRoutes EXCEPT !["/a"] = e],
                   [clients |-> {1}, sets |-> FALSE, bodies |-> Bodies,
                    errs |-> TRUE, paths |-> Patterns])

NextDispatch ==
    \/ \E r \in Reqs, k \in Keys, d \in SetChoices : MwStep(r, k, d)
    \/ \E r \in Reqs, k \in Keys, d \in SetChoices : PermEval(r, k, d)
    \/ \E r \in Reqs : PermEnd(r)
    \/ \E r \in At("body"), b \in app.bodies : Body(r, b)
    \/ Serving

SpecDispatch == InitDispatch /\ [][NextDispatch]_vars

\* Registration and dispatch: Handle between requests, on either pattern,
\* with a raw function, a 1-argument function or nil.
RawFunc == HandlerValue(FALSE, FALSE, "func", FALSE, RawIns, <<>>, FALSE)
OneArgFunc == HandlerValue(FALSE, FALSE, "func", FALSE, <<TRequest>>, <<"any", TError>>, FALSE)
UntypedNil == HandlerValue(TRUE, FALSE, "other", FALSE, <<>>, <<>>, FALSE)

InitRoutes ==
    InitServer(<<1>>, NoValues, NoRoutes,
               [clients |-> {1}, sets |-> FALSE, bodies |-> {NoBody},
                errs |-> FALSE, paths |-> Patterns])

NextRoutes ==
    \/ \E pat \in Patterns, h \in {RawFunc, OneArgFunc, UntypedNil} : Handle(pat, h, 0)
    \/ \E r \in Reqs, k \in Keys, d \in SetChoices : MwStep(r, k, d)
    \/ \E r \in Reqs : PermEnd(r)
    \/ Serving

SpecRoutes == InitRoutes /\ [][NextRoutes]_vars

\* Decoding: /a is served by the Handler of lines 251-324 and /b by the
\* Handler of lines 584-646, both made of a func(*Request, struct{A}).
InitDecode ==
    LET f == HandlerValue(FALSE, FALSE, "func", FALSE, <<TRequest, TStruct>>,
                          <<"any", TError>>, FALSE)
    IN  InitServer(<<1>>, NoValues,
                   [NoRoutes EXCEPT !["/a"] = Handler(f, 0), !["/b"] = Handler2(f, 0)],
                   [clients |-> {r \in Reqs : r <= 2}, sets |-> FALSE,
                    bodies |-> {NoBody, JSONNull, JSONObject({}), JSONObject({"A"}),
                                JSONObject({"A", "B"})},
                    errs |-> FALSE, paths |-> Patterns])

NextDecode ==
    \/ \E r \in Reqs, k \in Keys, d \in SetChoices : MwStep(r, k, d)
    \/ \E r \in Reqs : PermEnd(r)
    \/ \E r \in At("body"), b \in app.bodies : Body(r, b)
    \/ \E r \in At("body"), b \in app.bodies : Body2(r, b)
    \/ \E r \in Reqs : Elem2(r)
    \/ Serving

SpecDecode == InitDecode /\ [][NextDecode]_vars

\* HandlerWS: a pattern served by HandlerWS(handler, handlerOther) for a nil
\* handlerOther and for every shape Handler accepts, and requests with and
\* without the upgrade headers.
WSOthers ==
    {NoEntry, RawEntry(0, FALSE), FuncEntry(1, "", 0)}
        \cup {FuncEntry(2, t, 0) : t \in SecondParams}

InitWS ==
    \E o \in WSOthers :
        InitServer(<<1>>, NoValues, [NoRoutes EXCEPT !["/a"] = WSEntry(o)],
                   [clients |-> {1}, sets |-> FALSE, bodies |-> Bodies,
                    errs |-> TRUE, paths |-> {"/a"}])

NextWS ==
    \/ \E r \in Reqs, k \in Keys, d \in SetChoices : MwStep(r, k, d)
    \/ \E r \in At("ws"), hd \in Headers : WSHandler(r, hd)
    \/ \E r \in At("handshake"), ok \in BOOLEAN : WSHandshake(r, ok)
    \/ \E r \in Reqs : PermEnd(r)
    \/ \E r \in At("body"), b \in app.bodies : Body(r, b)
    \/ Serving

SpecWS == InitWS /\ [][NextWS]_vars

\* The encoder output on every output value, for two requests at a time.
InitOutput ==
    InitServer(<<>>, NoValues, NoRoutes,
               [clients |-> {r \in Reqs : r <= 2}, sets |-> FALSE, bodies |-> {NoBody},
                errs |-> FALSE, paths |-> {"/a"}])

NextOutput ==
    \/ \E r \in Reqs, out \in OutValues : OutputCall(r, out)
    \/ \E r \in Reqs : Finish(r)

SpecOutput == InitOutput /\ [][NextOutput]_vars

\* Serve on every list of at most MaxAddrs addresses, with net.Listen and
\* http.Serve failing or not.
InitListen ==
    InitServer(<<>>, NoValues, NoRoutes,
               [clients |-> {}, sets |-> FALSE, bodies |-> {NoBody},
                errs |-> FALSE, paths |-> {"/a"}])

NextListen ==
    \/ \E addrs \in AddrLists : ServeCall(addrs)
    \/ \E ok \in BOOLEAN : ServeBind(ok)
    \/ \E l \in Listeners : Accept(l)
    \/ \E l \in Listeners : ServeFail(l)
    \/ \E l \in Listeners : ServeRecv(l)

SpecListen == InitListen /\ [][NextListen]_vars

(***************************************************************************)
(* Properties                                                              *)
(***************************************************************************)
Reverse(q) == [i \in 1 .. Len(q) |-> q[Len(q) + 1 - i]]
IsPrefix(p, q) == Len(p) <= Len(q) /\ p = SubSeq(q, 1, Len(p))

\* C1 as stated: with middlewares registered in the order [A, B, C] before
\* the first request, a request is observed by C first, then B, then A, and
\* only then by the router - the registration order reversed.
C1_LastRegisteredFirst ==
    \A r \in Reqs : rq[r].routed => rq[r].seen = Reverse(frozen.mws)

\* C1 as amended: the middlewares observe a request in their registration
\* order - A first, then B, then C - and the router observes it only after
\* all of them.
C1_RegistrationOrder ==
    \A r \in Reqs :
        InFlight(r) =>
            /\ IsPrefix(rq[r].seen, frozen.mws)
            /\ rq[r].routed => rq[r].seen = frozen.mws

C1_Witness ==
    \E r \in Reqs : rq[r].routed /\ Len(rq[r].seen) = 3 /\ frozen.mws = middlewares

\* C4: the chain is built at most once per server; when first requests race,
\* the build runs exactly once and every request is dispatched through the
\* complete chain, never an absent or partially built one.
C4_BuiltOnce ==
    /\ builds <= 1
    /\ \A r \in Reqs :
           rq[r].pc \notin {"idle", "once", "lock", "locked", "build"} =>
               /\ builds = 1
               /\ rq[r].h = [set |-> TRUE, mws |-> frozen.mws]

C4_Witness ==
    \E r1, r2 \in Reqs :
        /\ r1 # r2
        /\ rq[r1].pc = "locked" /\ once.done
        /\ rq[r2].pc = "chain" /\ Len(rq[r2].h.mws) >= 2
        /\ builds = 1

\* The accepted shapes: an http.Handler, or a non-nil function that is a
\* func(http.ResponseWriter, *http.Request), a func(*Request) (T, error) or
\* a func(*Request, In) (T, error).
AcceptedShape(h) ==
    /\ ~h.untyped
    /\ \/ h.impl
       \/ /\ h.kind = "func"
          /\ ~h.zero
          /\ \/ ~h.named /\ h.ins = RawIns /\ h.outs = <<>>
             \/ /\ Len(h.ins) \in {1, 2}
                /\ h.ins[1] = TRequest
                /\ Len(h.outs) = 2
                /\ h.outs[2] = TError

ShapePanics ==
    {"error: nil handler", "handler must be a function or a http.Handler",
     "handler function must have 1 or 2 arguments", "handler must be a non-nil function",
     "handler: first argument of function must have type *api.Request",
     "handler: function must have 2 return values",
     "handler: second return value of function must have type error"}

C2_OwnValueOnly ==
    \A r \in Reqs : \A k \in Keys :
        InFlight(r) =>
            LET v == RequestGet(maps, rq[r].req, k)
            IN  /\ v.src = "request" => v.id = r
                /\ rq[r].wrote[k] # Absent => v = ReqVal(r)

C2_Witness ==
    \E r1, r2 \in Reqs : \E k \in Keys :
        /\ r1 # r2
        /\ values[k] # Absent
        /\ rq[r1].wrote[k] = ReqVal(r1) /\ rq[r1].stage = "handler" /\ rq[r1].pc = "ret"
        /\ rq[r2].wrote[k] = ReqVal(r2) /\ rq[r2].stage = "mw"

\* C3: a value stored with Request.Set at one stage of a request (a
\* middleware, a permission predicate) is what Request.Get returns at every
\* later stage of that request, for every handler shape and whether or not
\* the server-level store is empty.
C3_SetVisibleLater ==
    \A r \in Reqs : \A k \in Keys :
        InFlight(r) /\ rq[r].wrote[k] # Absent =>
            RequestGet(maps, rq[r].req, k) = rq[r].wrote[k]

\* C5: for every key given a value with Server.Set before a request came,
\* Request.Get returns that value at every stage of the request unless the
\* request itself has overwritten the key.
C5_SeededFromServer ==
    \A r \in Reqs : \A k \in Keys :
        InFlight(r) /\ values[k] # Absent /\ rq[r].wrote[k] = Absent =>
            RequestGet(maps, rq[r].req, k) = values[k]

C5_Witness ==
    \E r \in Reqs : \E k \in Keys :
        /\ values[k] = ServerVal(2)
        /\ rq[r].wrote[k] = Absent
        /\ rq[r].stage = "handler"
        /\ Len(rq[r].seen) = 1
        /\ Len(rq[r].asked) = 2
        /\ Entry(r).shape = "raw"

\* Whether the predicates of the entry let request r in: no predicate, or
\* one that answers true.
Permitted(r) ==
    Entry(r).nperm = 0 \/ \E i \in 1 .. Entry(r).nperm : rq[r].pvals[i]

PermissionDenied ==
    httpMessage(StatusUnauthorized, "error", <<"permission denied">>)

\* C7: with N permission predicates on a handler of any shape, the request
\* is let in iff N = 0 or some predicate returns true.  Let in, the gated
\* handler is entered exactly once (a raw handler or a 1-argument function
\* is then called exactly once, a 2-argument function exactly once when its
\* body decodes); refused, the handler never runs and the response is the
\* permission-denied status with an error body.
C7_Permission ==
    \A r \in Reqs :
        rq[r].routed /\ mux[rq[r].pat] # NoEntry =>
            /\ rq[r].entered <= 1
            /\ rq[r].calls <= rq[r].entered
            /\ rq[r].pc # "perm" =>
                   IF Permitted(r)
                       THEN /\ rq[r].entered = 1
                            /\ rq[r].resp # PermissionDenied
                       ELSE /\ rq[r].entered = 0
                            /\ rq[r].calls = 0
                            /\ rq[r].pc = "done"
                            /\ rq[r].resp = PermissionDenied
            /\ rq[r].pc \in {"ret", "done", "panicked"} /\ Permitted(r) =>
                   IF Entry(r).shape = "func" /\ Entry(r).nargs = 2
                       THEN rq[r].calls = 1 <=> rq[r].decoded
                       ELSE rq[r].calls = 1

C7_Witness ==
    \E r \in Reqs :
        /\ rq[r].pc = "done"
        /\ rq[r].pvals = <<FALSE, TRUE>>
        /\ Entry(r).shape = "func"
        /\ rq[r].calls = 1

\* Request r has come to the body stage of a 2-argument handler and is over.
TwoArgDone(r) ==
    /\ rq[r].routed
    /\ Entry(r).shape = "func" /\ Entry(r).nargs = 2
    /\ rq[r].entered = 1
    /\ rq[r].pc \in {"done", "panicked"}

HasUnknownField(b) == b.json = "object" /\ \E f \in b.fields : f \notin StructFields

\* C9: for a handler of the 2-argument shape with a struct input type, a
\* request body (let in by the permission check) with a field the type does
\* not declare is answered with 400 and a "parsing body" error, and the
\* handler is not called.
C9_UnknownField ==
    \A r \in Reqs :
        TwoArgDone(r) /\ Entry(r).tinput = TStruct /\ HasUnknownField(rq[r].body) =>
            /\ rq[r].resp.status = StatusBadRequest
            /\ rq[r].resp.label = "error"
            /\ rq[r].resp.msg = <<"parsing body", "json: unknown field">>
            /\ rq[r].calls = 0

C9_Witness ==
    \E r \in Reqs :
        /\ TwoArgDone(r) /\ Entry(r).tinput = TStruct
        /\ rq[r].body = JSONObject({"A", "B"})
        /\ rq[r].resp.status = StatusBadRequest

\* The status an error stands for: the one it declares (itself, or else the
\* outermost error it wraps that declares one), 404 when none is declared
\* and the error is or wraps the not-found sentinel, 400 otherwise.
Declares(e) == {i \in 1 .. Len(e) : e[i].k = "status"}
StatusOf(e) ==
    IF Declares(e) # {}
        THEN e[CHOOSE i \in Declares(e) : \A j \in Declares(e) : i <= j].code
    ELSE IF ErrNoRows[1] \in {e[i] : i \in 1 .. Len(e)} THEN StatusNotFound
    ELSE StatusBadRequest

\* C10: when a handler returns a non-nil error the response status is the
\* status the error stands for, and the output the handler returned with it
\* changes nothing of the response.
C10_ErrorStatus ==
    \A r \in Reqs :
        rq[r].pc = "done" /\ rq[r].res.err # <<>> =>
            /\ rq[r].resp.status = StatusOf(rq[r].res.err)
            /\ rq[r].resp.label = "error"
            /\ \A o \in Outputs : Respond([out |-> o, err |-> rq[r].res.err]) = rq[r].resp

C10_Witness ==
    \E r \in Reqs :
        /\ rq[r].pc = "done"
        /\ rq[r].res = [out |-> "string", err |-> <<StatusLayer(409)>> \o ErrNoRows]
        /\ rq[r].resp.status = 409

\* Error e is, or wraps, the record-not-found sentinel sql.ErrNoRows.
WrapsSentinel(e) == \E i \in 1 .. Len(e) : e[i] = ErrNoRows[1]

\* C11 as stated: whenever the error a handler returns is, or wraps, the
\* record-not-found sentinel, the response is 404 with the generic message
\* "not found", whatever the text and the wrapping of the error.
C11_SentinelAlwaysGeneric ==
    \A r \in Reqs :
        rq[r].pc = "done" /\ rq[r].res.err # <<>> /\ WrapsSentinel(rq[r].res.err) =>
            /\ rq[r].resp.status = StatusNotFound
            /\ rq[r].resp.msg = <<"not found">>

\* C11 as amended: whenever the error a handler returns is, or wraps, the
\* record-not-found sentinel and no error of its chain declares a status of
\* its own, the response is 404 with the body {"error": "not found"}: the
\* same response for every such error, whatever its text and its wrapping.
C11_SentinelGenericUnlessDeclared ==
    \A r \in Reqs :
        /\ rq[r].pc = "done" /\ rq[r].res.err # <<>>
        /\ WrapsSentinel(rq[r].res.err) /\ Declares(rq[r].res.err) = {}
        => /\ rq[r].resp.status = StatusNotFound
           /\ rq[r].resp.ctype = "application/json"
           /\ rq[r].resp.label = "error"
           /\ rq[r].resp.msg = <<"not found">>

C11_Witness ==
    \E r \in Reqs :
        /\ rq[r].pc = "done"
        /\ rq[r].res.err = <<WrapLayer("ctx"), WrapLayer("ctx")>> \o ErrNoRows
        /\ rq[r].resp.msg = <<"not found">>

\* The codes net/http accepts in WriteHeader; any other code makes it panic.
ValidStatus(c) == c \in 100 .. 999

\* C12: every error with status built with HTTPError carries a status in the
\* valid range, and so does every status the error path writes to a
\* response; an error that declares none is answered with 400.
C12_StatusInRange ==
    \A r \in Reqs :
        rq[r].pc = "done" /\ rq[r].res.err # <<>> =>
            /\ \A i \in Declares(rq[r].res.err) : ValidStatus(rq[r].res.err[i].code)
            /\ ValidStatus(rq[r].resp.status)
            /\ Declares(rq[r].res.err) = {} /\ ~WrapsSentinel(rq[r].res.err) =>
                   rq[r].resp.status = StatusBadRequest

\* The place of step ev in the trace of a request, 0 when it has not happened.
Pos(tr, ev) ==
    IF \E i \in 1 .. Len(tr) : tr[i] = ev
        THEN CHOOSE i \in 1 .. Len(tr) : tr[i] = ev /\ \A j \in 1 .. i - 1 : tr[j] # ev
        ELSE 0
Times(tr, ev) == Cardinality({i \in 1 .. Len(tr) : tr[i] = ev})
Before(tr, a, b) == 0 < Pos(tr, a) /\ Pos(tr, a) < Pos(tr, b)

\* C13: in a request served by the closure of a function-shaped handler the
\* steps happen once each and in the order permission check, body decode,
\* handler call, response: the body is not read before the permission
\* decision, the handler is not called before the body has been decoded
\* without error, and nothing is written before the handler has returned
\* unless the request is refused or its body rejected.
C13_StrictOrder ==
    \A r \in Reqs :
        rq[r].routed /\ Entry(r).shape = "func" =>
            LET tr == rq[r].trace
            IN  /\ \A ev \in {"permission", "decode", "call", "write"} : Times(tr, ev) <= 1
                /\ Pos(tr, "decode") # 0 => Before(tr, "permission", "decode")
                /\ Pos(tr, "call") # 0 =>
                       /\ Before(tr, "permission", "call")
                       /\ Entry(r).nargs = 2 =>
                              rq[r].decoded /\ Before(tr, "decode", "call")
                /\ rq[r].pc \in {"perm", "body", "call"} => rq[r].resp = NoResponse
                /\ rq[r].resp.status = StatusOK =>
                       /\ Before(tr, "call", "write")
                       /\ rq[r].res # NoResult

C13_Witness ==
    \E r \in Reqs :
        /\ TwoArgDone(r)
        /\ rq[r].trace = <<"permission", "decode", "call", "write">>
        /\ rq[r].resp.label = "json"
        /\ Len(rq[r].asked) = 2

\* C14: every request that reaches the closure of a function-shaped handler
\* ends with a response written, whatever the permission outcome, the body
\* (absent, malformed, JSON null or valid) and the result of the handler.
C14_AlwaysResponds ==
    \A r \in Reqs :
        rq[r].routed /\ Entry(r).shape = "func" /\ rq[r].pc \in {"done", "panicked"} =>
            /\ rq[r].pc = "done"
            /\ rq[r].resp # NoResponse
            /\ Times(rq[r].trace, "write") = 1

\* C15: the permission predicates of a request are invoked in the order they
\* were given, each at most once, and none is invoked after one has
\* returned true; when the decision is made, the predicates invoked are
\* exactly those up to the first approving one (all of them when none
\* approves).
C15_ShortCircuit ==
    \A r \in Reqs :
        rq[r].routed /\ mux[rq[r].pat] # NoEntry =>
            LET asked == rq[r].asked
                approving == {i \in 1 .. Entry(r).nperm : rq[r].pvals[i]}
            IN  /\ asked = [i \in 1 .. Len(asked) |-> i]
                /\ Len(asked) <= Entry(r).nperm
                /\ \A i \in 1 .. Len(asked) - 1 : ~rq[r].pvals[asked[i]]
                /\ rq[r].pc # "perm" =>
                       IF approving = {}
                           THEN Len(asked) = Entry(r).nperm
                           ELSE Len(asked) \in approving

C15_Witness ==
    \E r \in Reqs :
        /\ rq[r].routed
        /\ rq[r].pc = "done"
        /\ rq[r].pvals = <<TRUE, TRUE>>
        /\ rq[r].asked = <<1>>

\* C16: when a handler returns a nil error the response depends on the kind
\* of the output: a byte sequence is written as it is and the package sets
\* no content type; a string is written as {"info": "<string>"} with status
\* 200 and the JSON content type; any other value goes out with status 200
\* and the JSON content type, as its JSON encoding when it has one.
C16_ByOutputKind ==
    \A r \in Reqs :
        rq[r].pc = "done" /\ rq[r].res # NoResult /\ rq[r].res.err = <<>> =>
            LET out == rq[r].res.out
                resp == rq[r].resp
            IN  CASE out = "bytes" ->
                       resp.ctype = "" /\ resp.label = "bytes" /\ resp.msg = <<out>>
                  [] out = "string" ->
                       /\ resp.status = StatusOK /\ resp.ctype = "application/json"
                       /\ resp.label = "info" /\ resp.msg = <<out>>
                  [] OTHER ->
                       /\ resp.status = StatusOK /\ resp.ctype = "application/json"
                       /\ out # "chan" => resp.label = "json" /\ resp.msg = <<out>>

C16_Witness ==
    \E r \in Reqs :
        /\ rq[r].pc = "done"
        /\ rq[r].res = [out |-> "bytes", err |-> <<>>]
        /\ rq[r].resp.ctype = ""
        /\ rq[r].decoded

\* Output value out reports a status of its own: it has the method
\* HTTPStatus, as a value or as an error.
DeclaresStatus(out) ==
    HasHTTPStatus(out) \/ (out.kind = "error" /\ out.err[1].k = "status")
DeclaredStatus(out) == IF out.kind = "error" THEN out.err[1].code ELSE out.status

\* C17 as stated: when the output given to output declares its own status
\* the response carries exactly that status, and 200 otherwise; a value
\* built with OutputWithStatus(status, v) is sent with that status and the
\* JSON encoding of v as its body.
C17_DeclaredOr200 ==
    \A r \in Reqs :
        rq[r].pc = "done" /\ rq[r].val # NoOut =>
            LET out == rq[r].val
            IN  /\ rq[r].resp.status =
                       IF DeclaresStatus(out) THEN DeclaredStatus(out) ELSE StatusOK
                /\ out.kind = "outWithHTTPStatus" /\ out.val # "chan" =>
                       rq[r].resp.label = "json" /\ rq[r].resp.msg = <<out.val>>

\* C17 as amended: when the output declares its own status the response
\* carries exactly that status; otherwise it carries 200, unless the output
\* is an error value, which is answered as an error (the status it wraps,
\* 404 for the not-found sentinel, else 400).  A value built with
\* OutputWithStatus(status, v) is sent with that status and the JSON
\* encoding of v as its body.
C17_DeclaredOr200UnlessError ==
    \A r \in Reqs :
        rq[r].pc = "done" /\ rq[r].val # NoOut =>
            LET out == rq[r].val
            IN  /\ rq[r].resp.status =
                       IF DeclaresStatus(out) THEN DeclaredStatus(out)
                       ELSE IF out.kind = "error" THEN StatusOf(out.err)
                       ELSE StatusOK
                /\ out.kind = "outWithHTTPStatus" /\ out.val # "chan" =>
                       /\ rq[r].resp.ctype = "application/json"
                       /\ rq[r].resp.label = "json" /\ rq[r].resp.msg = <<out.val>>

C17_Witness ==
    \E r \in Reqs :
        /\ rq[r].pc = "done"
        /\ rq[r].val = OutputWithStatus(409, PlainOut("string"))
        /\ rq[r].resp.status = 409
        /\ rq[r].resp.msg = <<"string">>

\* C18: Serve serves on no listener before every address it was given is
\* bound: while an address is still unbound no goroutine runs http.Serve
\* and no connection has been accepted on an earlier address.
C18_BindAllBeforeServing ==
    /\ srv.pc = "loop" => \A l \in Listeners : srv.gor[l] = "none"
    /\ srv.early = {}

\* C19: when an address is unrecognized or its net.Listen fails, Serve
\* returns that failure and every listener it had opened is closed: none is
\* open once Serve has returned.
C19_RollbackOnBindFailure ==
    /\ srv.pc = "returned" => srv.open = {}
    /\ srv.pc = "returned" /\ srv.ret.kind \in {"unrecognized address", "listen"} =>
           /\ srv.ret.at = srv.i
           /\ Len(srv.listeners) = srv.i - 1
           /\ ~Resolve(srv.addrs[srv.i]).ok <=> srv.ret.kind = "unrecognized address"
    /\ srv.pc \in {"loop", "wait"} =>
           \A i \in 1 .. Len(srv.listeners) :
               Resolve(srv.addrs[i]).network \in KnownNetworks

C19_Witness ==
    /\ srv.pc = "returned"
    /\ srv.ret = ServeError("listen", 2)
    /\ srv.listeners = <<1>>
    /\ srv.accepted = {1}
    /\ srv.open = {}

\* C20: once every address is bound, the first error a goroutine reports
\* from http.Serve makes Serve close every listener and return exactly that
\* error; Serve never returns a nil error, and given no address it returns
\* an error without binding anything.
C20_FirstServeError ==
    srv.pc = "returned" =>
        /\ srv.ret # NoError
        /\ srv.open = {}
        /\ srv.addrs = <<>> =>
               srv.ret.kind = "no addresses" /\ srv.listeners = <<>> /\ srv.i = 0
        /\ srv.ret.kind = "serve" =>
               /\ Len(srv.listeners) = Len(srv.addrs)
               /\ srv.recv = 1
               /\ srv.gor[srv.ret.at] = "exited"
               /\ \A l \in Listeners : l # srv.ret.at => srv.gor[l] # "exited"
        /\ srv.ret.kind # "serve" => srv.recv = 0

C20_Witness ==
    /\ srv.pc = "returned"
    /\ srv.ret = ServeError("serve", 2)
    /\ srv.gor[1] = "sending"
    /\ Len(srv.listeners) = 2
    /\ srv.open = {}

\* The place of the first "!" of address ad, 0 when it has none.
FirstBang(ad) ==
    IF \E j \in 1 .. Len(ad) : ad[j] = "!"
        THEN CHOOSE j \in 1 .. Len(ad) : ad[j] = "!" /\ \A k \in 1 .. j - 1 : ad[k] # "!"
        ELSE 0

\* An address with no "!" that neither begins with "/" nor holds a ":".
Unrecognized(ad) ==
    /\ FirstBang(ad) = 0
    /\ ~(Len(ad) > 0 /\ ad[1] = "/")
    /\ \A j \in 1 .. Len(ad) : ad[j] # ":"

\* C21: Serve listens for each address on the network and address it
\* resolves to: an address holding "!" is split at its first "!" into the
\* network (before) and the address (after); otherwise one beginning with
\* "/" is listened on with network unix, otherwise one holding ":" with
\* network tcp, and any other is rejected with an unrecognized-address
\* error without listening.
C21_AddressResolution ==
    /\ \A i \in 1 .. Len(srv.listens) :
           LET ad == srv.addrs[i]
               p == FirstBang(ad)
           IN  srv.listens[i] =
                   IF p # 0
                       THEN [network |-> SubSeq(ad, 1, p - 1),
                             addr |-> SubSeq(ad, p + 1, Len(ad))]
                   ELSE IF ad[1] = "/" THEN [network |-> <<"unix">>, addr |-> ad]
                   ELSE [network |-> <<"tcp">>, addr |-> ad]
    /\ \A i \in 1 .. Len(srv.listens) : ~Unrecognized(srv.addrs[i])
    /\ srv.pc = "returned" /\ srv.i \in 1 .. Len(srv.addrs) =>
           (srv.ret.kind = "unrecognized address"
                <=> Len(srv.listens) < srv.i /\ Unrecognized(srv.addrs[srv.i]))
    /\ srv.ret.kind = "unrecognized address" => srv.i \in 1 .. Len(srv.addrs)
    /\ srv.pc = "loop" => Len(srv.listens) = srv.i - 1

C21_Witness ==
    /\ srv.pc = "wait"
    /\ srv.addrs = <<<<"/", "run", ":", "80">>, <<"unix", "!", "/", "run", "!", "x">>>>
    /\ srv.listens[1] = [network |-> <<"unix">>, addr |-> <<"/", "run", ":", "80">>]
    /\ srv.listens[2] = [network |-> <<"unix">>, addr |-> <<"/", "run", "!", "x">>]

C26_NoValidationWhileServing ==
    \A r \in Reqs : rq[r].checks = 0 /\ rq[r].built = 0

\* C23 as stated: Handle with a handler of an accepted shape under a pattern
\* that is registered already succeeds, and the pattern is then routed to
\* the handler registered last.
C23_LastRegistrationWins ==
    lastReg.call = "Handle" /\ AcceptedShape(lastReg.h) =>
        /\ lastReg.outcome = Ok
        /\ mux[lastReg.pattern] = Handler(lastReg.h, 0)

\* C23 as amended: Handle under a pattern that is registered already panics
\* in the router ("http: multiple registrations") and leaves the routing
\* table as it was, so that requests matching the pattern are still
\* dispatched to the handler registered first; under a free pattern it
\* succeeds and routes the pattern to the handler.
C23_DuplicatePatternPanics ==
    [][patterns' # patterns =>
          LET pat == patterns'[Len(patterns')]
          IN  IF mux[pat] # NoEntry
                  THEN /\ mux' = mux
                       /\ lastReg'.outcome = "http: multiple registrations"
                  ELSE /\ mux' = [mux EXCEPT ![pat] = Handler(lastReg'.h, 0)]
                       /\ lastReg'.outcome = Ok]_vars

C23_Witness ==
    \E r \in Reqs :
        /\ lastReg = [call |-> "Handle", h |-> RawFunc, pattern |-> "/a",
                      outcome |-> "http: multiple registrations"]
        /\ rq[r].routed /\ rq[r].pat = "/a"
        /\ rq[r].pc = "done"
        /\ Entry(r) = Handler(OneArgFunc, 0)
        /\ rq[r].resp.label = "info"

\* C27: a Handle call that panics leaves s.patterns and the routing table
\* as they were before the call, so that s.patterns holds exactly the
\* patterns of the Handle calls that succeeded, in call order.
C27_FailedHandleChangesNothing ==
    [][(patterns' # patterns \/ mux' # mux) => lastReg'.outcome = Ok]_vars

\* C24: the value a 2-argument handler is called with holds exactly the
\* fields the body of its own request set, whatever other requests were or
\* are being served.
C24_FreshInstancePerRequest ==
    \A r \in Reqs : rq[r].decoded => rq[r].arg = rq[r].body.fields

\* C25: once the chain is built it stays what it is: it holds the
\* middlewares registered before the first request, in their order, and
\* every request that reaches the router has passed through exactly those,
\* whatever AddMiddleware has appended to s.middlewares since.
C25_ChainNeverChanges ==
    once.done =>
        /\ handler = [set |-> TRUE, mws |-> frozen.mws]
        /\ \A r \in Reqs :
               rq[r].routed => rq[r].h = handler /\ rq[r].seen = frozen.mws

C25_Witness ==
    \E r \in Reqs :
        /\ once.done
        /\ Len(frozen.mws) = 1
        /\ Len(middlewares) = 3
        /\ rq[r].routed
        /\ rq[r].seen = frozen.mws
        /\ rq[r].pc = "done"

\* C28: no step of a request changes what Server.Get returns, whatever the
\* request gives to Request.Set; and a request that has just been wrapped
\* by newRequest reads, for every key, what Server.Get returns - never a
\* value another request has set.
C28_ServerStoreUntouched ==
    /\ [](\A r \in Reqs : \A k \in Keys :
             rq[r].pc = "once" => RequestGet(maps, rq[r].req, k) = ServerGet(k))
    /\ [][(\E r \in Reqs : rq'[r] # rq[r]) =>
              \A k \in Keys : ServerGet(k)' = ServerGet(k)]_vars

C28_Witness ==
    \E r1, r2 \in Reqs : \E k \in Keys :
        /\ r1 # r2
        /\ rq[r1].pc = "done" /\ rq[r1].wrote[k] = ReqVal(r1)
        /\ rq[r2].pc = "once"
        /\ values[k] = ServerVal(1)
        /\ RequestGet(maps, rq[r2].req, k) = ServerVal(1)
        /\ RequestGet(maps, rq[r1].req, k) = ReqVal(r1)

\* C29: once Serve has returned no goroutine it started is blocked sending
\* the error of its http.Serve on errs. (Serve alone receives from errs, at
\* line 103, so a goroutine that is sending after the return never leaves.)
C29_NoWorkerLeftSending ==
    srv.pc = "returned" => \A l \in Listeners : srv.gor[l] # "sending"

\* C30: in every request that reaches a dispatch closure the status is sent
\* at most once, as the last step of the request: a response is there
\* exactly when it was sent, nothing follows the sending, and an output the
\* encoder fails on leaves the success status that went out before it, the
\* failure being reported in the body.
C30_StatusSentOnce ==
    \A r \in Reqs :
        rq[r].routed /\ mux[rq[r].pat] # NoEntry =>
            LET tr == rq[r].trace
                n == Times(tr, "write")
            IN  /\ n <= 1
                /\ n = 1 <=> rq[r].resp # NoResponse
                /\ n = 1 => rq[r].pc = "done" /\ tr[Len(tr)] = "write"
                /\ rq[r].pc = "done" /\ rq[r].res.err = <<>> /\ rq[r].res.out = "chan" =>
                       rq[r].resp.status = StatusOK /\ rq[r].resp.label = "error"

C30_Witness ==
    \E r \in Reqs :
        /\ rq[r].routed /\ rq[r].pc = "done"
        /\ Entry(r).shape = "func" /\ Entry(r).nargs = 2 /\ Entry(r).nperm = 1
        /\ rq[r].res = [out |-> "chan", err |-> <<>>]
        /\ rq[r].trace = <<"permission", "decode", "call", "write">>
        /\ rq[r].resp.status = StatusOK /\ rq[r].resp.label = "error"

====
